---- MODULE Spec2Model ----
(***************************************************************************)
(* ChatCSV: a chat logger that appends one CSV row per message event to a  *)
(* per-key file (src/main.py), and an offline normalizer                   *)
(* (src/normalize_csv_images.py).                                          *)
(*                                                                         *)
(* Strings are sequences of one-character strings.  A Python value is a    *)
(* record [t |-> "none" | "str" | "int", v |-> its str() as a sequence].   *)
(* A file is [exists, bytes]; bytes is a sequence of units, each unit      *)
(* [l |-> line id, k |-> position in the line, n |-> length of the line].  *)
(***************************************************************************)
EXTENDS Naturals, Sequences, FiniteSets, TLC

VARIABLES
    pc,                 \* per record_message task: where it is
    event,              \* per task: the AstrMessageEvent it was called with
    file_path,          \* per task: csv_path returned by _resolve_csv_path
    my_lock,            \* per task: the local `lock` of _append_row (0: none)
    failed,             \* per task: the exception was caught and logged
    fs,                 \* the file system: physical file -> [exists, bytes]
    dirs,               \* the directories os.makedirs has created
    global_init_lock,   \* self._global_init_lock: the task holding it (0: free)
    file_locks,         \* self._file_locks: path string -> lock object (0: no entry)
    lock_owner,         \* per lock object: the task holding it (0: free)
    acquired,           \* history: per path string, the tasks in lock acquisition order
    sanIn, sanOut, sanDone,   \* one call of _sanitize_component: argument, result
    pending,            \* Archive Coordinator: the pending flag
    archive_lock,       \* Archive Coordinator: the archive lock is held by a run
    calls,              \* history: per request_archive() call, [st, during]
    builds,             \* history: the archive builds started and completed
    cellIn, cellOnce, cellTwice, cellStep,  \* normalize_cell applied once and twice
    dcRows, dcOut, dcDone,    \* one call of drop_columns: argument, result
    nzPc,               \* normalize_csv: where the call is
    nzOut,              \* normalize_csv: the file output_path names
    nzFs,               \* normalize_csv: file -> [exists, rows]
    nzRows,             \* normalize_csv: normalized_rows
    nzGiven, nzPrev,    \* history: the input and the destination when called
    rsIn, rsPath,       \* calls of _resolve_csv_path: identifiers, returned paths
    rsFiles,            \* the physical files those calls made sure exist
    event_bus,          \* self.context.event_bus: what methods it offers
    _event_listener_registered,
    _event_listener_token,
    subscribed,         \* the listeners the event bus holds
    listeners,          \* history: the listeners _make_bus_listener made
    lifecycle,          \* history: the number of initialize()/terminate() calls
    recorded            \* history: the record_message calls for the last event

vars == <<pc, event, file_path, my_lock, failed, fs, dirs, global_init_lock,
          file_locks, lock_owner, acquired, sanIn, sanOut, sanDone,
          pending, archive_lock, calls, builds,
          cellIn, cellOnce, cellTwice, cellStep, dcRows, dcOut, dcDone,
          nzPc, nzOut, nzFs, nzRows, nzGiven, nzPrev, rsIn, rsPath, rsFiles,
          event_bus, _event_listener_registered, _event_listener_token,
          subscribed, listeners, lifecycle, recorded>>

loggerVars == <<pc, event, file_path, my_lock, failed, fs, dirs, global_init_lock,
                file_locks, lock_owner, acquired>>
sanVars == <<sanIn, sanOut, sanDone>>
archiveVars == <<pending, archive_lock, calls, builds>>
cellVars == <<cellIn, cellOnce, cellTwice, cellStep>>
\* the state of the offline normalizer and of the single-call specifications
dropVars == <<dcRows, dcOut, dcDone>>
csvVars == <<nzPc, nzOut, nzFs, nzRows, nzGiven, nzPrev>>
resolveVars == <<rsIn, rsPath, rsFiles>>
listenerVars == <<event_bus, _event_listener_registered, _event_listener_token,
                  subscribed, listeners, lifecycle, recorded>>
batchVars == <<cellVars, dropVars, csvVars, resolveVars, listenerVars>>
notCellVars == <<loggerVars, sanVars, archiveVars, dropVars, csvVars, resolveVars, listenerVars>>
notDropVars == <<loggerVars, sanVars, archiveVars, cellVars, csvVars, resolveVars, listenerVars>>
notCsvVars == <<loggerVars, sanVars, archiveVars, cellVars, dropVars, resolveVars, listenerVars>>
notResolveVars == <<loggerVars, sanVars, archiveVars, cellVars, dropVars, csvVars, listenerVars>>

(***************************************************************************)
(* Bounds.                                                                 *)
(***************************************************************************)
NumTasks == 2           \* concurrent record_message calls
MaxIdLen == 2           \* length of the short identifiers given to the sanitizer
MaxRequests == 4        \* request_archive() calls

Tasks == 1..NumTasks
NoTask == 0

(***************************************************************************)
(* Python values and characters.                                           *)
(***************************************************************************)
None == [t |-> "none", v |-> <<>>]
Str(s) == [t |-> "str", v |-> s]
Int(digits) == [t |-> "int", v |-> digits]

\* bool(value): None, "" and 0 are falsy.
Truthy(value) ==
    CASE value.t = "none" -> FALSE
      [] value.t = "str" -> value.v # <<>>
      [] value.t = "int" -> value.v # <<"0">>

\* `value or default`
Or(value, default) == IF Truthy(value) THEN value ELSE default

WordChars == {"a", "g", "1", "_"}                 \* \w
Whitespace == {" "}                               \* what str.strip() removes
PathSeparators == {"/", "\\"}
Alphabet == WordChars \cup {".", "-", "*"} \cup Whitespace \cup PathSeparators

Min(a, b) == IF a < b THEN a ELSE b

RECURSIVE LStrip(_)
LStrip(s) == IF s # <<>> /\ Head(s) \in Whitespace THEN LStrip(Tail(s)) ELSE s

RECURSIVE RStrip(_)
RStrip(s) ==
    IF s # <<>> /\ s[Len(s)] \in Whitespace THEN RStrip(SubSeq(s, 1, Len(s) - 1)) ELSE s

\* str.strip()
Strip(s) == RStrip(LStrip(s))

\* re.sub(r"[^\w.-]", "_", text)
ReSubNonWord(text) ==
    [i \in 1..Len(text) |->
        IF text[i] \in WordChars \cup {".", "-"} THEN text[i] ELSE "_"]

MaxComponentLen == 100

\* a faulty variant of _sanitize_component: the result is not cut to the limit
SanitizeNoTruncate(value) ==
    LET text == Strip(Or(value, Str(<<>>)).v)
    IN  IF text = <<>> THEN <<>> ELSE ReSubNonWord(text)

\* ChatCSVLogger._sanitize_component
_sanitize_component(value) ==
    LET text == Strip(Or(value, Str(<<>>)).v)
    IN  IF text = <<>> THEN <<>>
        ELSE SubSeq(ReSubNonWord(text), 1, Min(MaxComponentLen, Len(ReSubNonWord(text))))

(***************************************************************************)
(* Events, the Record Mapper's timestamp and the path resolver.            *)
(***************************************************************************)
\* ChatCSVLogger._to_iso: float(timestamp) raises TypeError (None) or ValueError
\* (text) and the current time is used; a number datetime.fromtimestamp cannot
\* convert raises out of _to_iso.
_to_iso(timestamp) ==
    CASE timestamp \in {"none", "text"} -> [raised |-> FALSE, iso |-> "now"]
      [] timestamp = "valid" -> [raised |-> FALSE, iso |-> "ts"]
      [] timestamp = "huge" -> [raised |-> TRUE, iso |-> "ts"]

\* The events the tasks are called with: identifiers, timestamp, and the length
\* of the encoded row (in units; the header line is two units long).
Events == {
    [group_id |-> Str(<<"g">>), session_id |-> Str(<<"1">>), sender_id |-> Int(<<"1">>),
     timestamp |-> "valid", len |-> 3],
    [group_id |-> Str(<<"g">>), session_id |-> None, sender_id |-> None,
     timestamp |-> "none", len |-> 1],
    [group_id |-> Str(<<".", ".">>), session_id |-> Str(<<"1">>), sender_id |-> None,
     timestamp |-> "text", len |-> 1],
    [group_id |-> Str(<<>>), session_id |-> Str(<<".", ".">>), sender_id |-> Int(<<"1">>),
     timestamp |-> "valid", len |-> 3],
    [group_id |-> Str(<<"g">>), session_id |-> Str(<<"1">>), sender_id |-> Int(<<"1">>),
     timestamp |-> "huge", len |-> 1] }

NoEvent == [group_id |-> None, session_id |-> None, sender_id |-> None,
            timestamp |-> "none", len |-> 1]

\* self._csv_base_dir: a path is the sequence of its components
_csv_base_dir == << <<"chatcsv">> >>
FileName == <<"chat_history.csv">>

\* os.path.join(path, component): an empty component adds only a separator
PathJoin(path, component) == IF component = <<>> THEN path ELSE Append(path, component)

\* ChatCSVLogger._resolve_csv_path, lines 101-113: the folder of the key
Folder(group_id, session_id, sender_id) ==
    IF Truthy(group_id)
    THEN PathJoin(PathJoin(_csv_base_dir, <<"groups">>), _sanitize_component(group_id))
    ELSE LET identifier ==
                 IF _sanitize_component(session_id) # <<>>
                 THEN _sanitize_component(session_id)
                 ELSE IF _sanitize_component(sender_id) # <<>>
                      THEN _sanitize_component(sender_id)
                      ELSE <<"private_unknown">>
         IN  PathJoin(PathJoin(_csv_base_dir, <<"privates">>), identifier)

\* ChatCSVLogger._resolve_csv_path, line 115: the path string of the Target File
FilePath(group_id, session_id, sender_id) ==
    PathJoin(Folder(group_id, session_id, sender_id), FileName)

EventFolder(e) == Folder(e.group_id, e.session_id, e.sender_id)
EventPath(e) == FilePath(e.group_id, e.session_id, e.sender_id)

\* What the operating system does with a path: "." stays, ".." goes up.
RECURSIVE Resolve(_, _)
Resolve(path, done) ==
    IF path = <<>> THEN done
    ELSE IF Head(path) = <<".">> THEN Resolve(Tail(path), done)
    ELSE IF Head(path) = <<".", ".">>
         THEN Resolve(Tail(path), IF done = <<>> THEN done ELSE SubSeq(done, 1, Len(done) - 1))
    ELSE Resolve(Tail(path), Append(done, Head(path)))

\* The physical file (or directory) a path string denotes
Phys(path) == Resolve(path, <<>>)

PathStrings == {EventPath(e) : e \in Events}
PhysFiles == {Phys(p) : p \in PathStrings}

(***************************************************************************)
(* File contents.                                                          *)
(***************************************************************************)
HeaderLine == 0
LineBytes(id, n) == [k \in 1..n |-> [l |-> id, k |-> k, n |-> n]]

\* writer.writerow(self._csv_headers): the encoded header line
HeaderBytes == LineBytes(HeaderLine, 2)
\* writer.writerow(row): the encoded row of task t
RowBytes(t) == LineBytes(t, event[t].len)

NoFile == [exists |-> FALSE, bytes |-> <<>>]

\* open(file_path, mode="w"): created or truncated, the position at 0
OpenTruncate(file) == [exists |-> TRUE, bytes |-> <<>>]
\* open(file_path, mode="a"): created if missing, the content kept
OpenAppend(file) == [exists |-> TRUE, bytes |-> file.bytes]
\* a write of `data` at position 0 of a file opened with mode "w"
WriteAtStart(file, data) ==
    [exists |-> TRUE,
     bytes |-> data \o SubSeq(file.bytes, Len(data) + 1, Len(file.bytes))]
\* a write of `data` to a file opened with mode "a" (O_APPEND: at the end)
WriteAtEnd(file, data) == [exists |-> TRUE, bytes |-> file.bytes \o data]

(***************************************************************************)
(* The state after construction: no task running, no file on disk.         *)
(***************************************************************************)
SanShort == UNION {[1..n -> Alphabet] : n \in 0..MaxIdLen}
\* identifiers longer than the limit, with and without characters to replace
SanLong == {[i \in 1..(MaxComponentLen + 1) |-> c] : c \in {"a", "/", "."}}
             \cup {<<" ", "/">> \o [i \in 1..MaxComponentLen |-> "a"] \o <<"\\", " ">>}
SanInputs == {None, Int(<<"0">>), Int(<<"1", "1">>)} \cup {Str(s) : s \in SanShort \cup SanLong}

LoggerInit ==
    /\ pc = [t \in Tasks |-> "idle"]
    /\ event = [t \in Tasks |-> NoEvent]
    /\ file_path = [t \in Tasks |-> <<>>]
    /\ my_lock = [t \in Tasks |-> 0]
    /\ failed = [t \in Tasks |-> FALSE]
    /\ fs = [f \in PhysFiles |-> NoFile]
    /\ dirs = {}
    /\ global_init_lock = NoTask
    /\ file_locks = [p \in PathStrings |-> 0]
    /\ lock_owner = [l \in Tasks |-> NoTask]
    /\ acquired = [p \in PathStrings |-> <<>>]

SanInit == sanIn = None /\ sanOut = <<>> /\ sanDone = FALSE

ArchiveInit ==
    /\ pending = FALSE
    /\ archive_lock = FALSE
    /\ calls = <<>>
    /\ builds = [started |-> 0, completed |-> 0]

CellInit == cellIn = <<>> /\ cellOnce = <<>> /\ cellTwice = <<>> /\ cellStep = 0

DropInit == dcRows = <<>> /\ dcOut = <<>> /\ dcDone = FALSE

\* the files normalize_csv can touch: its input, three places output_path can
\* name besides the input, and the temporary file
CsvFileNames == {"input", "sibling", "other_dir", "other_device", "tmp"}
NoCsv == [exists |-> FALSE, rows |-> <<>>]

CsvInit ==
    /\ nzPc = "idle"
    /\ nzOut = "input"
    /\ nzFs = [f \in CsvFileNames |-> NoCsv]
    /\ nzRows = <<>>
    /\ nzGiven = NoCsv
    /\ nzPrev = NoCsv

ResolveInit == rsIn = <<>> /\ rsPath = <<>> /\ rsFiles = {}

\* the context has no event bus yet, and __init__ (lines 39-40) has run
Unset == [sub |-> "unset", token |-> FALSE, unsub |-> "unset"]
NoToken == [listener |-> 0, token |-> 0]

ListenerInit ==
    /\ event_bus = Unset
    /\ _event_listener_registered = FALSE
    /\ _event_listener_token = NoToken
    /\ subscribed = {}
    /\ listeners = 0
    /\ lifecycle = 0
    /\ recorded = 0

BatchInit == CellInit /\ DropInit /\ CsvInit /\ ResolveInit /\ ListenerInit

Init == LoggerInit /\ SanInit /\ ArchiveInit /\ BatchInit

(***************************************************************************)
(* record_message, one action per step between two suspension points.      *)
(***************************************************************************)
\* record_message, lines 49-71: map the event to a row and resolve the path; an
\* exception of the mapping is caught and logged (lines 73-74).
RecordMessage(t) ==
    /\ pc[t] = "idle"
    /\ \E e \in Events :
        /\ event' = [event EXCEPT ![t] = e]
        /\ IF _to_iso(e.timestamp).raised
           THEN /\ failed' = [failed EXCEPT ![t] = TRUE]
                /\ pc' = [pc EXCEPT ![t] = "done"]
                /\ UNCHANGED file_path
           ELSE /\ file_path' = [file_path EXCEPT ![t] = EventPath(e)]
                /\ pc' = [pc EXCEPT ![t] = "ensure"]
                /\ UNCHANGED failed
    /\ UNCHANGED <<sanVars, archiveVars, batchVars, my_lock, fs, dirs, global_init_lock, file_locks, lock_owner, acquired>>

\* a faulty variant of NeedsHeader: the header is written without the existence check
NeedsHeaderAlways(f) == TRUE

\* _ensure_csv_ready, line 124: `not os.path.exists(file_path)`
NeedsHeader(f) == ~fs[f].exists

\* _ensure_csv_ready, lines 123-124, in a worker thread, no lock held
EnsureCsvReady(t) ==
    /\ pc[t] = "ensure"
    /\ dirs' = dirs \cup {Phys(EventFolder(event[t]))}
    /\ pc' = [pc EXCEPT ![t] = IF NeedsHeader(Phys(file_path[t])) THEN "hdr_open" ELSE "guard"]
    /\ UNCHANGED <<sanVars, archiveVars, batchVars, event, file_path, my_lock, failed, fs, global_init_lock, file_locks,
                   lock_owner, acquired>>

\* _ensure_csv_ready, line 125: open(file_path, mode="w")
HeaderOpen(t) ==
    /\ pc[t] = "hdr_open"
    /\ fs' = [fs EXCEPT ![Phys(file_path[t])] = OpenTruncate(@)]
    /\ pc' = [pc EXCEPT ![t] = "hdr_write"]
    /\ UNCHANGED <<sanVars, archiveVars, batchVars, event, file_path, my_lock, failed, dirs, global_init_lock, file_locks,
                   lock_owner, acquired>>

\* _ensure_csv_ready, lines 126-127: the header is written when the file is closed
HeaderWrite(t) ==
    /\ pc[t] = "hdr_write"
    /\ fs' = [fs EXCEPT ![Phys(file_path[t])] = WriteAtStart(@, HeaderBytes)]
    /\ pc' = [pc EXCEPT ![t] = "guard"]
    /\ UNCHANGED <<sanVars, archiveVars, batchVars, event, file_path, my_lock, failed, dirs, global_init_lock, file_locks,
                   lock_owner, acquired>>

\* _get_file_lock, line 130: async with self._global_init_lock
GuardAcquire(t) ==
    /\ pc[t] = "guard"
    /\ global_init_lock = NoTask
    /\ global_init_lock' = t
    /\ pc' = [pc EXCEPT ![t] = "registry"]
    /\ UNCHANGED <<sanVars, archiveVars, batchVars, event, file_path, my_lock, failed, fs, dirs, file_locks, lock_owner,
                   acquired>>

\* a faulty variant of RegistryKey: one lock for every path
RegistryKeyShared(path) == CHOOSE p \in PathStrings : TRUE

\* _get_file_lock, line 131: the key of the registry is the path string
RegistryKey(path) == path

\* a faulty variant of LockFor: every caller makes its own lock
LockAlwaysNew(key, t) == t

\* _get_file_lock, lines 131-134: the lock of the entry, a new asyncio.Lock()
\* (named after the task that makes it) if there is none
LockFor(key, t) == IF file_locks[key] = 0 THEN t ELSE file_locks[key]

\* a faulty variant of GuardAfterLookup: the guard lock is kept by the caller
GuardKept(t) == t

\* _get_file_lock, line 130: the end of `async with self._global_init_lock`
GuardAfterLookup(t) == NoTask

\* _get_file_lock, lines 131-135: look the lock up, create it if missing, leave the guard
GetFileLock(t) ==
    /\ pc[t] = "registry"
    /\ LET key == RegistryKey(file_path[t])
           lock == LockFor(key, t)
       IN  /\ file_locks' = [file_locks EXCEPT ![key] = lock]
           /\ my_lock' = [my_lock EXCEPT ![t] = lock]
    /\ global_init_lock' = GuardAfterLookup(t)
    /\ pc' = [pc EXCEPT ![t] = "acquire"]
    /\ UNCHANGED <<sanVars, archiveVars, batchVars, event, file_path, failed, fs, dirs, lock_owner, acquired>>

\* _append_row, line 82: async with lock
AcquireFileLock(t) ==
    /\ pc[t] = "acquire"
    /\ lock_owner[my_lock[t]] = NoTask
    /\ lock_owner' = [lock_owner EXCEPT ![my_lock[t]] = t]
    /\ acquired' = [acquired EXCEPT ![file_path[t]] = Append(@, t)]
    /\ pc' = [pc EXCEPT ![t] = "app_open"]
    /\ UNCHANGED <<sanVars, archiveVars, batchVars, event, file_path, my_lock, failed, fs, dirs, global_init_lock, file_locks>>

\* _write_row_sync, line 86: open(file_path, mode="a"), in a worker thread
AppendOpen(t) ==
    /\ pc[t] = "app_open"
    /\ fs' = [fs EXCEPT ![Phys(file_path[t])] = OpenAppend(@)]
    /\ pc' = [pc EXCEPT ![t] = "app_write"]
    /\ UNCHANGED <<sanVars, archiveVars, batchVars, event, file_path, my_lock, failed, dirs, global_init_lock, file_locks,
                   lock_owner, acquired>>

\* _write_row_sync, lines 87-88: the row is written when the file is closed
AppendWrite(t) ==
    /\ pc[t] = "app_write"
    /\ fs' = [fs EXCEPT ![Phys(file_path[t])] = WriteAtEnd(@, RowBytes(t))]
    /\ pc' = [pc EXCEPT ![t] = "release"]
    /\ UNCHANGED <<sanVars, archiveVars, batchVars, event, file_path, my_lock, failed, dirs, global_init_lock, file_locks,
                   lock_owner, acquired>>

\* _append_row, line 82: the end of `async with lock`
ReleaseFileLock(t) ==
    /\ pc[t] = "release"
    /\ lock_owner' = [lock_owner EXCEPT ![my_lock[t]] = NoTask]
    /\ pc' = [pc EXCEPT ![t] = "done"]
    /\ UNCHANGED <<sanVars, archiveVars, batchVars, event, file_path, my_lock, failed, fs, dirs, global_init_lock, file_locks,
                   acquired>>

\* Any number of record_message tasks run concurrently.
Next ==
    \/ \E t \in Tasks : RecordMessage(t)
    \/ \E t \in Tasks : EnsureCsvReady(t)
    \/ \E t \in Tasks : HeaderOpen(t)
    \/ \E t \in Tasks : HeaderWrite(t)
    \/ \E t \in Tasks : GuardAcquire(t)
    \/ \E t \in Tasks : GetFileLock(t)
    \/ \E t \in Tasks : AcquireFileLock(t)
    \/ \E t \in Tasks : AppendOpen(t)
    \/ \E t \in Tasks : AppendWrite(t)
    \/ \E t \in Tasks : ReleaseFileLock(t)

Spec == Init /\ [][Next]_vars

(***************************************************************************)
(* Sequential use: a call starts only when no other call is running.       *)
(***************************************************************************)
SeqRecordMessage(t) ==
    /\ \A u \in Tasks \ {t} : pc[u] \in {"idle", "done"}
    /\ RecordMessage(t)

SeqNext ==
    \/ \E t \in Tasks : SeqRecordMessage(t)
    \/ \E t \in Tasks : EnsureCsvReady(t)
    \/ \E t \in Tasks : HeaderOpen(t)
    \/ \E t \in Tasks : HeaderWrite(t)
    \/ \E t \in Tasks : GuardAcquire(t)
    \/ \E t \in Tasks : GetFileLock(t)
    \/ \E t \in Tasks : AcquireFileLock(t)
    \/ \E t \in Tasks : AppendOpen(t)
    \/ \E t \in Tasks : AppendWrite(t)
    \/ \E t \in Tasks : ReleaseFileLock(t)

SeqSpec == Init /\ [][SeqNext]_vars

(***************************************************************************)
(* I/O errors (OSError: disk full, permissions).  An exception leaves      *)
(* `async with lock` through its exit, which releases the lock, and is     *)
(* caught and logged by record_message (lines 73-74).                      *)
(***************************************************************************)
\* os.makedirs raises (line 123)
MakedirsFails(t) ==
    /\ pc[t] = "ensure"
    /\ failed' = [failed EXCEPT ![t] = TRUE]
    /\ pc' = [pc EXCEPT ![t] = "done"]
    /\ UNCHANGED <<sanVars, archiveVars, batchVars, event, file_path, my_lock, fs, dirs,
                   global_init_lock, file_locks, lock_owner, acquired>>

\* open(file_path, mode="w") raises (line 125): nothing is created
HeaderOpenFails(t) ==
    /\ pc[t] = "hdr_open"
    /\ failed' = [failed EXCEPT ![t] = TRUE]
    /\ pc' = [pc EXCEPT ![t] = "done"]
    /\ UNCHANGED <<sanVars, archiveVars, batchVars, event, file_path, my_lock, fs, dirs,
                   global_init_lock, file_locks, lock_owner, acquired>>

\* the write of the header raises (lines 126-127): the file stays as open left it
HeaderWriteFails(t) ==
    /\ pc[t] = "hdr_write"
    /\ failed' = [failed EXCEPT ![t] = TRUE]
    /\ pc' = [pc EXCEPT ![t] = "done"]
    /\ UNCHANGED <<sanVars, archiveVars, batchVars, event, file_path, my_lock, fs, dirs,
                   global_init_lock, file_locks, lock_owner, acquired>>

\* open(file_path, mode="a") raises (line 86), inside `async with lock`
AppendOpenFails(t) ==
    /\ pc[t] = "app_open"
    /\ failed' = [failed EXCEPT ![t] = TRUE]
    /\ pc' = [pc EXCEPT ![t] = "release"]
    /\ UNCHANGED <<sanVars, archiveVars, batchVars, event, file_path, my_lock, fs, dirs,
                   global_init_lock, file_locks, lock_owner, acquired>>

\* the write of the row raises (lines 87-88) after part of the row, or none
AppendWriteFails(t) ==
    /\ pc[t] = "app_write"
    /\ \E k \in 0..(event[t].len - 1) :
          fs' = [fs EXCEPT ![Phys(file_path[t])] = WriteAtEnd(@, SubSeq(RowBytes(t), 1, k))]
    /\ failed' = [failed EXCEPT ![t] = TRUE]
    /\ pc' = [pc EXCEPT ![t] = "release"]
    /\ UNCHANGED <<sanVars, archiveVars, batchVars, event, file_path, my_lock, dirs,
                   global_init_lock, file_locks, lock_owner, acquired>>

\* Sequential calls, each of whose I/O steps may fail.
SeqFaultNext ==
    \/ SeqNext
    \/ \E t \in Tasks : MakedirsFails(t)
    \/ \E t \in Tasks : HeaderOpenFails(t)
    \/ \E t \in Tasks : HeaderWriteFails(t)
    \/ \E t \in Tasks : AppendOpenFails(t)
    \/ \E t \in Tasks : AppendWriteFails(t)

SeqFaultSpec == Init /\ [][SeqFaultNext]_vars

(***************************************************************************)
(* One call of the Key Sanitizer on any value.                             *)
(***************************************************************************)
SanitizeInit ==
    /\ LoggerInit /\ ArchiveInit /\ BatchInit
    /\ sanIn \in SanInputs
    /\ sanOut = <<>>
    /\ sanDone = FALSE

Sanitize ==
    /\ ~sanDone
    /\ sanOut' = _sanitize_component(sanIn)
    /\ sanDone' = TRUE
    /\ UNCHANGED <<loggerVars, archiveVars, batchVars, sanIn>>

SanitizeSpec == SanitizeInit /\ [][Sanitize]_vars

(***************************************************************************)
(* The Archive Coordinator (spec section 4.5).  Tasks are cooperative: a   *)
(* run is suspended only while its build is in flight, so the archive lock *)
(* is held exactly while a build is in flight.  A call is "queued" until a *)
(* build starts after it, "building" while that build is in flight, and    *)
(* "served" or "failed" when it ended; `during` is the number of the build *)
(* in flight when the call was made (0: none).                             *)
(***************************************************************************)
\* a faulty variant of StartBuild: the calls are queued, one build for each
StartBuildPerCall(cs) ==
    LET waiting == {i \in 1..Len(cs) : cs[i].st \in {"queued", "failed"}}
        first == CHOOSE i \in waiting : \A j \in waiting : i <= j
    IN  [pending |-> waiting # {first},
         calls |-> [i \in 1..Len(cs) |-> IF i = first THEN [cs[i] EXCEPT !.st = "building"]
                                         ELSE cs[i]]]

\* step 3: clear pending and start one build; it covers every call made so far
\* that no complete build has covered
StartBuild(cs) ==
    [pending |-> FALSE,
     calls |-> [i \in 1..Len(cs) |->
                   IF cs[i].st \in {"queued", "failed"} THEN [cs[i] EXCEPT !.st = "building"]
                   ELSE cs[i]]]

\* a faulty variant of RunAgain: the lock is released without rechecking pending
RunAgainNever(flag) == FALSE

\* step 3: "while pending is true", rechecked before the lock is released
RunAgain(flag) == flag

\* request_archive(), steps 1-3 up to the first build's suspension
RequestArchive ==
    /\ Len(calls) < MaxRequests
    /\ IF archive_lock
       THEN /\ pending' = TRUE
            /\ calls' = Append(calls, [st |-> "queued", during |-> builds.started])
            /\ UNCHANGED <<archive_lock, builds>>
       ELSE LET run == StartBuild(Append(calls, [st |-> "queued", during |-> 0]))
            IN  /\ archive_lock' = TRUE
                /\ pending' = run.pending
                /\ calls' = run.calls
                /\ builds' = [builds EXCEPT !.started = @ + 1]
    /\ UNCHANGED <<loggerVars, sanVars, batchVars>>

\* the build in flight ends; the run rechecks pending and builds again or
\* releases the lock
BuildEnds(outcome) ==
    LET ended == [i \in 1..Len(calls) |->
                     IF calls[i].st = "building" THEN [calls[i] EXCEPT !.st = outcome]
                     ELSE calls[i]]
        done == IF outcome = "served" THEN builds.completed + 1 ELSE builds.completed
    IN  IF RunAgain(pending)
        THEN /\ pending' = StartBuild(ended).pending
             /\ calls' = StartBuild(ended).calls
             /\ builds' = [started |-> builds.started + 1, completed |-> done]
             /\ UNCHANGED archive_lock
        ELSE /\ archive_lock' = FALSE
             /\ calls' = ended
             /\ builds' = [builds EXCEPT !.completed = done]
             /\ UNCHANGED pending

\* the build completes: the archive is published
BuildSucceeds ==
    /\ archive_lock
    /\ BuildEnds("served")
    /\ UNCHANGED <<loggerVars, sanVars, batchVars>>

\* failure policy: the failure is logged and aborts only that build attempt
BuildFails ==
    /\ archive_lock
    /\ BuildEnds("failed")
    /\ UNCHANGED <<loggerVars, sanVars, batchVars>>

ArchiveNext ==
    \/ RequestArchive
    \/ BuildSucceeds
    \/ BuildFails

\* a build in flight ends
ArchiveSpec == Init /\ [][ArchiveNext]_vars /\ WF_vars(BuildSucceeds \/ BuildFails)

(***************************************************************************)
(* Reading a file back, and where the tasks are.                           *)
(***************************************************************************)
Garbage == NumTasks + 1

\* The lines of a file, by line id: a line is read when all its units are there,
\* in order; anything else reads as one Garbage line and ends the reading.
RECURSIVE LinesOf(_)
LinesOf(bytes) ==
    IF bytes = <<>> THEN <<>>
    ELSE LET n == bytes[1].n
         IN  IF /\ Len(bytes) >= n
                /\ \A i \in 1..n : bytes[i] = [l |-> bytes[1].l, k |-> i, n |-> n]
             THEN <<bytes[1].l>> \o LinesOf(SubSeq(bytes, n + 1, Len(bytes)))
             ELSE <<Garbage>>

Count(seq, x) == Cardinality({i \in 1..Len(seq) : seq[i] = x})

RECURSIVE Concat(_)
Concat(seqs) == IF seqs = <<>> THEN <<>> ELSE Head(seqs) \o Concat(Tail(seqs))

Active(t) == pc[t] \notin {"idle", "done"}
AllDone == \A t \in Tasks : pc[t] = "done"
Target(t) == Phys(file_path[t])
\* between open(mode="w") and the close that writes the header
WritingHeader(t) == pc[t] = "hdr_write"
\* between open(mode="a") and the close that writes the row
WritingRow(t) == pc[t] = "app_write"
\* inside `async with lock` of _append_row
InWriteSection(t) == pc[t] \in {"app_open", "app_write", "release"}
\* the row of t has been written
Written(t) == pc[t] \in {"release", "done"} /\ ~failed[t] /\ file_path[t] # <<>>
\* the tasks started so far all address one key, whose path names no "." or ".."
SameKey ==
    \A t, u \in Tasks :
        (pc[t] # "idle" /\ pc[u] # "idle") =>
            /\ EventPath(event[t]) = EventPath(event[u])
            /\ Phys(EventPath(event[t])) = EventPath(event[t])

(***************************************************************************)
(* Claims.                                                                 *)
(***************************************************************************)
\* C1 (as claimed): when N record_message calls for one key, none of which
\* failed, have all finished, the file holds the header and then N rows, the
\* row of every call exactly once.
C1_AllRowsPresent ==
    (AllDone /\ SameKey /\ \A t \in Tasks : ~failed[t]) =>
        \A t \in Tasks :
            LET lines == LinesOf(fs[Target(t)].bytes)
            IN  /\ fs[Target(t)].exists
                /\ Len(lines) = NumTasks + 1
                /\ lines[1] = HeaderLine
                /\ \A u \in Tasks : Count(lines, u) = 1

\* C2 (as claimed): at most one task has a given physical file open for
\* writing, header writers and row writers together (stated for tasks of
\* one key).
C2_SingleWriter ==
    SameKey => \A f \in PhysFiles :
        Cardinality({t \in Tasks : (WritingHeader(t) \/ WritingRow(t)) /\ Target(t) = f}) <= 1

\* C3 (as claimed): a file that exists and is not being written is the header
\* line followed by complete data rows only (stated for tasks of one key).
C3_HeaderThenRows ==
    SameKey => \A f \in PhysFiles :
        (fs[f].exists /\ ~\E t \in Tasks : (WritingHeader(t) \/ WritingRow(t)) /\ Target(t) = f) =>
            LET lines == LinesOf(fs[f].bytes)
            IN  /\ lines # <<>>
                /\ lines[1] = HeaderLine
                /\ \A i \in 2..Len(lines) : lines[i] \in Tasks

\* C4 (as claimed): while all tasks address one key, the file is the header
\* followed by the rows written so far in the order their tasks acquired the
\* per-path lock.
C4_RowsInLockOrder ==
    SameKey =>
        \A t \in Tasks :
            (file_path[t] # <<>> /\ fs[Target(t)].exists /\ ~\E u \in Tasks : WritingHeader(u)) =>
                fs[Target(t)].bytes =
                    HeaderBytes \o Concat([i \in 1..Len(acquired[file_path[t]]) |->
                        IF Written(acquired[file_path[t]][i])
                        THEN RowBytes(acquired[file_path[t]][i]) ELSE <<>>])

\* the task u waits for: the holder of the lock u is about to take
Blocker(u) ==
    CASE pc[u] = "guard" -> global_init_lock
      [] pc[u] = "acquire" -> lock_owner[my_lock[u]]
      [] OTHER -> NoTask

\* C5: a task waits only for the guard lock, whose holder is at its
\* lookup-and-insert and in no write section, or for the per-path lock of its
\* own path string, so a task stalled in the write section of another key never
\* blocks it; an append fails only when the mapping raised, and the row of a
\* finished append that has its file to itself is in the file under the header.
C5_KeysDoNotBlockEachOther ==
    \A u \in Tasks :
        /\ Blocker(u) # NoTask =>
              \/ pc[u] = "guard" /\ pc[Blocker(u)] = "registry"
              \/ /\ pc[u] = "acquire"
                 /\ InWriteSection(Blocker(u))
                 /\ file_path[Blocker(u)] = file_path[u]
        /\ failed[u] => _to_iso(event[u].timestamp).raised
        /\ (pc[u] = "done" /\ ~failed[u] /\ \A t \in Tasks \ {u} : Target(t) # Target(u)) =>
              fs[Target(u)].bytes = HeaderBytes \o RowBytes(u)

\* C5 witness: two tasks of different keys are both inside their write section.
C5_Witness ==
    \E t, u \in Tasks :
        /\ file_path[t] # file_path[u]
        /\ pc[t] = "app_write"
        /\ pc[u] = "app_write"

\* the tasks whose row is in file f if every append did what it is meant to
RowsDue(f) == {t \in Tasks : Written(t) /\ Target(t) = f}

\* C6: in sequential use no call opens an existing file for truncation, and a
\* file that exists and is not being initialised holds the header exactly once,
\* at its start, followed by the row of every append made so far.
C6_SequentialInitIdempotent ==
    \A f \in PhysFiles :
        /\ \A t \in Tasks : (pc[t] = "hdr_open" /\ Target(t) = f) => ~fs[f].exists
        /\ (fs[f].exists /\ ~\E t \in Tasks : WritingHeader(t) /\ Target(t) = f) =>
              LET lines == LinesOf(fs[f].bytes)
              IN  /\ Count(lines, HeaderLine) = 1
                  /\ lines[1] = HeaderLine
                  /\ Len(lines) = 1 + Cardinality(RowsDue(f))
                  /\ \A t \in RowsDue(f) : Count(lines, t) = 1

\* C6 witness: a second call found the file there and appended below the
\* one header.
C6_Witness ==
    \E f \in PhysFiles :
        /\ AllDone
        /\ Cardinality(RowsDue(f)) = NumTasks
        /\ Len(LinesOf(fs[f].bytes)) = NumTasks + 1

\* C7 (as claimed): a finished call holds no lock, and once no call is running
\* every file that a successful call appended to is the header followed by the
\* rows of the successful calls, as if the failed calls had not been made.
C7_FailureContained ==
    /\ \A t \in Tasks :
          pc[t] = "done" => (global_init_lock # t /\ \A l \in Tasks : lock_owner[l] # t)
    /\ (SameKey /\ \A t \in Tasks : ~Active(t)) =>
          \A f \in PhysFiles :
              RowsDue(f) # {} =>
                  LET lines == LinesOf(fs[f].bytes)
                  IN  /\ lines # <<>>
                      /\ lines[1] = HeaderLine
                      /\ Len(lines) = 1 + Cardinality(RowsDue(f))
                      /\ \A t \in RowsDue(f) : Count(lines, t) = 1

\* C8: when one call started a build and every other call was made while
\* that build was in flight, at most two builds are started, hence completed.
C8_ArchiveCoalescing ==
    (/\ Cardinality({i \in 1..Len(calls) : calls[i].during = 0}) = 1
     /\ \A i \in 1..Len(calls) : calls[i].during \in {0, 1}) =>
        /\ builds.started <= 2
        /\ builds.completed <= 2

\* C8 witness: several calls were made during the first build, and exactly the
\* first build and one follow-up have completed.
C8_Witness ==
    /\ Cardinality({i \in 1..Len(calls) : calls[i].during = 1}) >= 2
    /\ Cardinality({i \in 1..Len(calls) : calls[i].during = 0}) = 1
    /\ builds.completed = 2
    /\ ~archive_lock

\* C9 (as claimed): once no run is in flight, every call made so far has been
\* followed by a complete build that started after it.
C9_EveryTriggerBuilt ==
    ~archive_lock => \A i \in 1..Len(calls) : calls[i].st = "served"

\* C9 (amended): every call is eventually followed by a build attempt that
\* started after it and has ended, completed or failed.
C9_EveryTriggerAttempted ==
    \A i \in 1..MaxRequests :
        [](Len(calls) >= i => <>(Len(calls) >= i /\ calls[i].st \in {"served", "failed"}))

\* C9 witness: a call that returned at once because a build was in flight has
\* been served by the follow-up build.
C9_Witness ==
    \E i \in 1..Len(calls) : calls[i].during # 0 /\ calls[i].st = "served"

\* C10: the result of the sanitizer is at most 100 characters long, all of them
\* word characters, dot or hyphen, none a path separator.
C10_SanitizedComponent ==
    sanDone =>
        /\ Len(sanOut) <= MaxComponentLen
        /\ \A i \in 1..Len(sanOut) :
              sanOut[i] \in WordChars \cup {".", "-"} /\ sanOut[i] \notin PathSeparators

\* C10 witness: an identifier longer than the limit, with separators and
\* surrounding blanks, came out cut to the limit.
C10_Witness ==
    /\ sanDone
    /\ Len(sanIn.v) > MaxComponentLen
    /\ \E i \in 1..Len(sanIn.v) : sanIn.v[i] \in PathSeparators
    /\ Head(sanIn.v) \in Whitespace
    /\ Len(sanOut) = MaxComponentLen

(***************************************************************************)
(* The offline normalizer (src/normalize_csv_images.py): normalize_cell.   *)
(* A cell is a sequence of characters; a pattern's match is computed the   *)
(* way re.sub finds it: leftmost start, greedy, matches do not overlap and *)
(* the replacement is not scanned again by the same pattern.               *)
(***************************************************************************)
MaxChunks == 3          \* a cell is made of at most this many pieces

\* re.IGNORECASE, for the upper-case letters of the cells
Lower(c) == CASE c = "I" -> "i" [] c = "C" -> "c" [] c = "Q" -> "q" [] OTHER -> c

Quotes == {"'", "\""}

\* the literal `lit` (in lower case) is at position pos of text
LitAt(text, pos, lit) ==
    /\ pos >= 1
    /\ pos + Len(lit) - 1 <= Len(text)
    /\ \A i \in 1..Len(lit) : Lower(text[pos + i - 1]) = lit[i]

\* the first position >= from whose character is in set (0: none)
FirstIn(text, from, set) ==
    LET S == {i \in from..Len(text) : text[i] \in set}
    IN  IF S = {} THEN 0 ELSE CHOOSE i \in S : \A j \in S : i <= j

\* the first position >= from whose character is not in set (Len + 1: none)
FirstNotIn(text, from, set) ==
    LET S == {i \in from..Len(text) : text[i] \notin set}
    IN  IF S = {} THEN Len(text) + 1 ELSE CHOOSE i \in S : \A j \in S : i <= j

\* Image\([^)]*\)  : the end of the match that starts at pos (0: no match)
ImageCallEnd(text, pos) ==
    IF LitAt(text, pos, <<"i", "m", "a", "g", "e", "(">>)
    THEN FirstIn(text, pos + 6, {")"})
    ELSE 0

\* \[CQ:image[^\]]*\]
CQImageEnd(text, pos) ==
    IF LitAt(text, pos, <<"[", "c", "q", ":", "i", "m", "a", "g", "e">>)
    THEN FirstIn(text, pos + 9, {"]"})
    ELSE 0

\* ['\"]type['\"]\s*:\s*['\"]image['\"]  starts at k and ends by position limit
TypeImageAt(text, k, limit) ==
    LET colon == FirstNotIn(text, k + 6, Whitespace)
        quote == FirstNotIn(text, colon + 1, Whitespace)
    IN  /\ k + 5 <= limit
        /\ text[k] \in Quotes
        /\ LitAt(text, k + 1, <<"t", "y", "p", "e">>)
        /\ text[k + 5] \in Quotes
        /\ colon <= limit /\ text[colon] = ":"
        /\ quote + 6 <= limit /\ text[quote] \in Quotes
        /\ LitAt(text, quote + 1, <<"i", "m", "a", "g", "e">>)
        /\ text[quote + 6] \in Quotes

\* \{[^{}]*['\"]type['\"]\s*:\s*['\"]image['\"][^{}]*\}
DictImageEnd(text, pos) ==
    LET brace == FirstIn(text, pos + 1, {"{", "}"})
    IN  IF /\ text[pos] = "{"
           /\ brace # 0
           /\ text[brace] = "}"
           /\ \E k \in (pos + 1)..(brace - 1) : TypeImageAt(text, k, brace - 1)
        THEN brace
        ELSE 0

Extensions == { <<".", "j", "p", "g">>, <<".", "j", "p", "e", "g">>, <<".", "p", "n", "g">>,
                <<".", "g", "i", "f">>, <<".", "w", "e", "b", "p">> }

\* https?://[^\s\"\']+(?:\.jpg|\.jpeg|\.png|\.gif|\.webp)(?:\?[^\s\"\'\)]*)?
\* the greedy run gives back characters until an extension follows it: the last
\* extension of the run is taken, then the query if a "?" follows
ImageUrlEnd(text, pos) ==
    LET scheme == IF LitAt(text, pos, <<"h", "t", "t", "p", "s">>) THEN pos + 5 ELSE pos + 4
        run == scheme + 3
        runEnd == LET S == {i \in run..Len(text) : text[i] \in Whitespace \cup Quotes}
                  IN  IF S = {} THEN Len(text) ELSE (CHOOSE i \in S : \A j \in S : i <= j) - 1
        exts == {x \in [at : (run + 1)..runEnd, ext : Extensions] :
                    /\ x.at + Len(x.ext) - 1 <= runEnd
                    /\ LitAt(text, x.at, x.ext)}
        last == CHOOSE x \in exts : \A y \in exts : y.at <= x.at
        extEnd == last.at + Len(last.ext) - 1
    IN  IF /\ LitAt(text, pos, <<"h", "t", "t", "p">>)
           /\ LitAt(text, scheme, <<":", "/", "/">>)
           /\ exts # {}
        THEN IF extEnd < Len(text) /\ text[extEnd + 1] = "?"
             THEN FirstNotIn(text, extEnd + 2,
                             {c \in {text[i] : i \in DOMAIN text} :
                                 c \notin Whitespace \cup Quotes \cup {")"}}) - 1
             ELSE extEnd
        ELSE 0

\* IMAGE_PATTERNS[n]: the end of the match of pattern n that starts at pos
PatternEnd(n, text, pos) ==
    CASE n = 1 -> ImageCallEnd(text, pos)
      [] n = 2 -> CQImageEnd(text, pos)
      [] n = 3 -> DictImageEnd(text, pos)
      [] n = 4 -> ImageUrlEnd(text, pos)

Placeholder == <<"i", "m", "a", "g", "e">>

\* pattern.sub("image", text), from position pos on
RECURSIVE Sub(_, _, _)
Sub(n, text, pos) ==
    IF pos > Len(text) THEN <<>>
    ELSE IF PatternEnd(n, text, pos) # 0
         THEN Placeholder \o Sub(n, text, PatternEnd(n, text, pos) + 1)
         ELSE <<text[pos]>> \o Sub(n, text, pos + 1)

\* normalize_cell
normalize_cell(value) ==
    IF value = <<>> THEN value
    ELSE Sub(4, Sub(3, Sub(2, Sub(1, value, 1), 1), 1), 1)

\* The pieces cells are made of.
Chunks == {
    <<"I", "m", "a", "g", "e", "(">>,
    <<")">>,
    <<"(", "x", ")">>,
    <<"[", "C", "Q", ":", "i", "m", "a", "g", "e">>,
    <<"]">>,
    <<"{">>,
    <<"'", "t", "y", "p", "e", "'", ":", " ", "\"", "i", "m", "a", "g", "e", "\"">>,
    <<"}">>,
    <<"h", "t", "t", "p", ":", "/", "/", "a">>,
    <<".", "p", "n", "g">>,
    <<"?", "q">>,
    <<" ">>,
    <<"i", "m", "a", "g", "e">> }

RECURSIVE Flatten(_)
Flatten(pieces) == IF pieces = <<>> THEN <<>> ELSE Head(pieces) \o Flatten(Tail(pieces))

CellInputs == {Flatten(ps) : ps \in UNION {[1..n -> Chunks] : n \in 0..MaxChunks}}

\* text = normalize_cell(value), for any cell of a row (normalize_csv, line 43)
NormalizeCell ==
    /\ cellStep = 0
    /\ \E value \in CellInputs :
        /\ cellIn' = value
        /\ cellOnce' = normalize_cell(value)
    /\ cellStep' = 1
    /\ UNCHANGED <<notCellVars, cellTwice>>

\* the normalizer run again on its own output
NormalizeAgain ==
    /\ cellStep = 1
    /\ cellTwice' = normalize_cell(cellOnce)
    /\ cellStep' = 2
    /\ UNCHANGED <<notCellVars, cellIn, cellOnce>>

CellNext == NormalizeCell \/ NormalizeAgain

CellSpec == Init /\ [][CellNext]_vars

\* C11: the normalizer is idempotent: a cell normalized twice equals the cell
\* normalized once, so the placeholder next to the characters around it never
\* forms a new match.
C11_Idempotent == cellStep = 2 => cellTwice = cellOnce

(***************************************************************************)
(* drop_columns.  A cell is a string; the function compares only the       *)
(* header's cells with the names to drop.  Positions count from 1.         *)
(***************************************************************************)
MaxCols == 3            \* columns of a header; a row has up to one cell more

COLUMNS_TO_DROP == {"timestamp_iso", "timestamp_unix", "platform", "message_type", "self_id",
                    "session_id", "sender_repr", "message_components", "raw_message"}

\* a faulty variant of DropIndices: only the first column of each name is dropped
DropIndicesFirstOnly(header, target_columns) ==
    {idx \in 1..Len(header) :
        /\ header[idx] \in target_columns
        /\ \A j \in 1..(idx - 1) : header[j] # header[idx]}

\* drop_indices (line 67)
DropIndices(header, target_columns) ==
    {idx \in 1..Len(header) : header[idx] \in target_columns}

\* kept_indices (line 71)
KeptIndices(header, drop_indices) ==
    SelectSeq([idx \in 1..Len(header) |-> idx], LAMBDA idx : idx \notin drop_indices)

\* [row[idx] for idx in kept_indices if idx < len(row)] (line 74)
PruneRow(row, kept_indices) ==
    LET present == SelectSeq(kept_indices, LAMBDA idx : idx <= Len(row))
    IN  [j \in 1..Len(present) |-> row[present[j]]]

\* drop_columns
drop_columns(rows, target_columns) ==
    IF rows = <<>> THEN rows
    ELSE IF DropIndices(rows[1], target_columns) = {} THEN rows
    ELSE [r \in 1..Len(rows) |->
             PruneRow(rows[r], KeptIndices(rows[1], DropIndices(rows[1], target_columns)))]

\* Headers with kept, dropped and repeated names; a data row shorter than, as
\* long as or longer than the header, each cell naming its position.
HeaderNames == {"platform", "session_id", "content"}
Headers == UNION {[1..n -> HeaderNames] : n \in 0..MaxCols}
CellOf(idx) == [pos |-> idx]
DataRows == {[idx \in 1..n |-> CellOf(idx)] : n \in 0..(MaxCols + 1)}
RowLists == {<<>>} \cup {<<h>> : h \in Headers}
                   \cup {<<h, d>> : h \in Headers, d \in DataRows}

\* normalized_rows = drop_columns(normalized_rows, COLUMNS_TO_DROP) (line 47)
DropColumns ==
    /\ ~dcDone
    /\ \E rows \in RowLists :
        /\ dcRows' = rows
        /\ dcOut' = drop_columns(rows, COLUMNS_TO_DROP)
    /\ dcDone' = TRUE
    /\ UNCHANGED notDropVars

DropSpec == Init /\ [][DropColumns]_vars

Range(seq) == {seq[i] : i \in DOMAIN seq}

\* C12 as stated: the output header holds no name of the drop set, and has
\* len(header) - len(drop_set & header) columns, also with repeated names.
C12_HeaderCountBySet ==
    (dcDone /\ dcRows # <<>>) =>
        /\ Range(dcOut[1]) \cap COLUMNS_TO_DROP = {}
        /\ Len(dcOut[1]) = Len(dcRows[1]) - Cardinality(COLUMNS_TO_DROP \cap Range(dcRows[1]))

\* C12 amended: the output header holds no name of the drop set, and has
\* len(header) minus the number of header positions named in the drop set.
C12_HeaderCountByPosition ==
    (dcDone /\ dcRows # <<>>) =>
        /\ Range(dcOut[1]) \cap COLUMNS_TO_DROP = {}
        /\ Len(dcOut[1]) = Len(dcRows[1])
               - Cardinality({idx \in 1..Len(dcRows[1]) : dcRows[1][idx] \in COLUMNS_TO_DROP})

\* a header with a repeated name of the drop set and a kept name went through
C12_Witness ==
    /\ dcDone
    /\ dcRows # <<>>
    /\ \E i, j \in 1..Len(dcRows[1]) :
        i # j /\ dcRows[1][i] = dcRows[1][j] /\ dcRows[1][i] \in COLUMNS_TO_DROP
    /\ dcOut[1] = <<"content">>

\* the cells of row outside the positions of drop_indices, in their order
CellsOutside(row, drop_indices) ==
    LET others == SelectSeq([idx \in 1..Len(row) |-> idx], LAMBDA idx : idx \notin drop_indices)
    IN  [j \in 1..Len(others) |-> row[others[j]]]

\* C19: for a row shorter than, as long as or longer than the header,
\* drop_columns removes exactly the cells at the dropped header positions and
\* keeps every other cell in its order: no cell of another position is lost.
C19_OnlyDroppedCellsRemoved ==
    dcDone =>
        \A r \in 1..Len(dcRows) :
            /\ r \in DOMAIN dcOut
            /\ dcOut[r] = CellsOutside(dcRows[r], DropIndices(dcRows[1], COLUMNS_TO_DROP))

(***************************************************************************)
(* normalize_csv.  A file holds the rows csv.reader reads from it; a cell  *)
(* is a sequence of characters.  Every step that touches a file is an      *)
(* action, so what another process can see of the destination is a state.  *)
(***************************************************************************)
\* a name of COLUMNS_TO_DROP as the characters of a cell
NameText(name) ==
    CASE name = "timestamp_iso" ->
           <<"t", "i", "m", "e", "s", "t", "a", "m", "p", "_", "i", "s", "o">>
      [] name = "timestamp_unix" ->
           <<"t", "i", "m", "e", "s", "t", "a", "m", "p", "_", "u", "n", "i", "x">>
      [] name = "platform" ->
           <<"p", "l", "a", "t", "f", "o", "r", "m">>
      [] name = "message_type" ->
           <<"m", "e", "s", "s", "a", "g", "e", "_", "t", "y", "p", "e">>
      [] name = "self_id" ->
           <<"s", "e", "l", "f", "_", "i", "d">>
      [] name = "session_id" ->
           <<"s", "e", "s", "s", "i", "o", "n", "_", "i", "d">>
      [] name = "sender_repr" ->
           <<"s", "e", "n", "d", "e", "r", "_", "r", "e", "p", "r">>
      [] name = "message_components" ->
           <<"m", "e", "s", "s", "a", "g", "e", "_", "c", "o", "m", "p", "o", "n", "e", "n", "t", "s">>
      [] name = "raw_message" ->
           <<"r", "a", "w", "_", "m", "e", "s", "s", "a", "g", "e">>

ColumnsToDropText == {NameText(name) : name \in COLUMNS_TO_DROP}

\* normalize_csv, lines 42-47: normalize every cell, then drop the columns
NormalizedRows(rows) ==
    drop_columns([r \in 1..Len(rows) |->
                     [c \in 1..Len(rows[r]) |-> normalize_cell(rows[r][c])]],
                 ColumnsToDropText)

CsvHeaderCells == {NameText("platform"), <<"m", "s", "g">>}
CsvDataCells == {<<"h", "i">>, <<"I", "m", "a", "g", "e", "(", "x", ")">>}
CsvContents == {<<>>} \cup {<<h>> : h \in [1..2 -> CsvHeaderCells]}
                      \cup {<<h, d>> : h \in [1..2 -> CsvHeaderCells], d \in [1..2 -> CsvDataCells]}
CsvFile(rows) == [exists |-> TRUE, rows |-> rows]
\* what the destination can hold before the call
OldCsv == CsvFile(<< <<<<"o", "l", "d">>>> >>)

\* Path.parent of a file, and the file system a directory is on
DirOf(f) == CASE f \in {"input", "sibling", "tmp"} -> "input_dir"
              [] f = "other_dir" -> "output_dir"
              [] f = "other_device" -> "mounted_dir"
DeviceOf(dir) == IF dir = "mounted_dir" THEN "device_2" ELSE "device_1"

\* normalize_csv(input_path, output_path) is called: output_path is None or
\* names a file that exists or not; the input exists or not.
NormalizeCsvCall ==
    /\ nzPc = "idle"
    /\ \E given \in {NoCsv} \cup {CsvFile(rows) : rows \in CsvContents},
          out \in CsvFileNames \ {"tmp"},
          prev \in {NoCsv, OldCsv} :
        /\ nzOut' = out
        /\ nzGiven' = given
        /\ nzPrev' = IF out = "input" THEN given ELSE prev
        /\ nzFs' = [f \in CsvFileNames |->
                       IF f = "input" THEN given ELSE IF f = out THEN prev ELSE NoCsv]
    /\ nzPc' = "read"
    /\ UNCHANGED <<notCsvVars, nzRows>>

\* lines 38-47: read the rows, normalize them; open() raises if there is no input
ReadRows ==
    /\ nzPc = "read"
    /\ IF nzFs["input"].exists
       THEN /\ nzRows' = NormalizedRows(nzFs["input"].rows)
            /\ nzPc' = "create"
       ELSE /\ nzPc' = "raised"
            /\ UNCHANGED nzRows
    /\ UNCHANGED <<notCsvVars, nzOut, nzFs, nzGiven, nzPrev>>

\* lines 49-50: tempfile.NamedTemporaryFile(dir=input_path.parent, delete=False)
CreateTemp ==
    /\ nzPc = "create"
    /\ nzFs' = [nzFs EXCEPT !["tmp"] = CsvFile(<<>>)]
    /\ nzPc' = "write"
    /\ UNCHANGED <<notCsvVars, nzOut, nzRows, nzGiven, nzPrev>>

\* lines 51-53: writer.writerows(normalized_rows), the file is closed
WriteTemp ==
    /\ nzPc = "write"
    /\ nzFs' = [nzFs EXCEPT !["tmp"] = CsvFile(nzRows)]
    /\ nzPc' = "move"
    /\ UNCHANGED <<notCsvVars, nzOut, nzRows, nzGiven, nzPrev>>

\* the write raises (disk full): the temporary file stays as far as written
WriteTempFails ==
    /\ nzPc = "write"
    /\ \E n \in 0..Len(nzRows) :
        nzFs' = [nzFs EXCEPT !["tmp"] = CsvFile(SubSeq(nzRows, 1, n))]
    /\ nzPc' = "raised"
    /\ UNCHANGED <<notCsvVars, nzOut, nzRows, nzGiven, nzPrev>>

\* shutil.move(tmp_name, output_path) within one file system: os.rename puts the
\* temporary file in the destination's place in one step
SameDevice == DeviceOf(DirOf("tmp")) = DeviceOf(DirOf(nzOut))

Rename ==
    /\ nzPc = "move"
    /\ SameDevice
    /\ nzFs' = [nzFs EXCEPT ![nzOut] = nzFs["tmp"], !["tmp"] = NoCsv]
    /\ nzPc' = "done"
    /\ UNCHANGED <<notCsvVars, nzOut, nzRows, nzGiven, nzPrev>>

\* shutil.move across file systems: os.rename raises OSError and the file is
\* copied; the copy opens the destination for writing, which empties it
CopyOpen ==
    /\ nzPc = "move"
    /\ ~SameDevice
    /\ nzFs' = [nzFs EXCEPT ![nzOut] = CsvFile(<<>>)]
    /\ nzPc' = "copy"
    /\ UNCHANGED <<notCsvVars, nzOut, nzRows, nzGiven, nzPrev>>

\* the copy writes the next piece of the temporary file to the destination
CopyWrite ==
    /\ nzPc = "copy"
    /\ Len(nzFs[nzOut].rows) < Len(nzFs["tmp"].rows)
    /\ nzFs' = [nzFs EXCEPT ![nzOut] =
                   CsvFile(SubSeq(nzFs["tmp"].rows, 1, Len(nzFs[nzOut].rows) + 1))]
    /\ UNCHANGED <<notCsvVars, nzPc, nzOut, nzRows, nzGiven, nzPrev>>

\* the copy raises (disk full on the destination's file system)
CopyFails ==
    /\ nzPc = "copy"
    /\ nzPc' = "raised"
    /\ UNCHANGED <<notCsvVars, nzOut, nzFs, nzRows, nzGiven, nzPrev>>

\* shutil.move, after the copy: os.unlink(src)
UnlinkTemp ==
    /\ nzPc = "copy"
    /\ Len(nzFs[nzOut].rows) = Len(nzFs["tmp"].rows)
    /\ nzFs' = [nzFs EXCEPT !["tmp"] = NoCsv]
    /\ nzPc' = "done"
    /\ UNCHANGED <<notCsvVars, nzOut, nzRows, nzGiven, nzPrev>>

CsvNext ==
    \/ NormalizeCsvCall
    \/ ReadRows
    \/ CreateTemp
    \/ WriteTemp
    \/ WriteTempFails
    \/ Rename
    \/ CopyOpen
    \/ CopyWrite
    \/ CopyFails
    \/ UnlinkTemp

CsvSpec == Init /\ [][CsvNext]_vars

\* the complete output of the call
CompleteOutput == CsvFile(NormalizedRows(nzGiven.rows))

\* C13: during and after normalize_csv the destination holds its previous
\* content or the complete output, never a part of it (the temporary file
\* being promoted by one atomic replace); a call that raised left the
\* destination as it was, and a call that returned left the complete output,
\* also when the destination is the input file.
C13_DestinationNeverPartial ==
    nzPc # "idle" =>
        /\ nzFs[nzOut] \in {nzPrev, CompleteOutput}
        /\ nzPc = "raised" => nzFs[nzOut] = nzPrev
        /\ nzPc = "done" => nzFs[nzOut] = CompleteOutput

(***************************************************************************)
(* The lock registry (_get_file_lock) under concurrent record_message.     *)
(***************************************************************************)
\* task t has its lock from _get_file_lock
HasLock(t) == pc[t] \in {"acquire", "app_open", "app_write", "release"}
                  \/ (pc[t] = "done" /\ ~failed[t])

\* C14: the registry holds exactly one lock object per path ever requested:
\* every call for a path got the lock of the path's entry, paths do not share
\* a lock, only requested paths have an entry, and an entry once made is never
\* replaced or removed; so no two callers hold different locks for one path.
C14_OneLockPerPath ==
    /\ [](/\ \A t \in Tasks :
                HasLock(t) => /\ file_locks[file_path[t]] # 0
                              /\ my_lock[t] = file_locks[file_path[t]]
          /\ \A t, u \in Tasks :
                (HasLock(t) /\ HasLock(u) /\ file_path[t] = file_path[u])
                    => my_lock[t] = my_lock[u]
          /\ \A p, q \in PathStrings :
                (p # q /\ file_locks[p] # 0) => file_locks[p] # file_locks[q]
          /\ \A p \in PathStrings :
                file_locks[p] # 0 => \E t \in Tasks : HasLock(t) /\ file_path[t] = p)
    /\ [][\A p \in PathStrings : file_locks[p] # 0 => file_locks'[p] = file_locks[p]]_vars

\* two calls for one path both have the lock the first of them made
C14_Witness ==
    \E t, u \in Tasks :
        /\ t # u
        /\ HasLock(t) /\ HasLock(u)
        /\ file_path[t] = file_path[u]
        /\ my_lock[t] = t /\ my_lock[u] = t
        /\ file_locks[file_path[t]] = t

\* C15: the guard lock is held only for the lookup-and-insert: its holder does
\* no directory or file I/O, and neither waits for nor holds a per-path lock.
C15_GuardOnlyAroundLookup ==
    \A t \in Tasks :
        global_init_lock = t =>
            /\ pc[t] = "registry"
            /\ \A l \in Tasks : lock_owner[l] # t

\* a task holds the guard lock while another task, holding its per-path lock,
\* is inside its file I/O
C15_Witness ==
    \E t, u \in Tasks :
        /\ global_init_lock = t
        /\ pc[t] = "registry"
        /\ pc[u] \in {"app_open", "app_write"}
        /\ lock_owner[my_lock[u]] = u

(***************************************************************************)
(* The path resolver (_resolve_csv_path) on any identifiers, one call      *)
(* after the other.                                                        *)
(***************************************************************************)
MaxResolves == 2        \* calls of _resolve_csv_path

GroupIds == {None, Str(<<>>), Str(<<" ">>), Str(<<"g">>), Str(<<".">>), Str(<<".", ".">>),
             Int(<<"1">>)}
SessionIds == {None, Str(<<"1">>), Str(<<".", ".">>)}
SenderIds == {None, Int(<<"1">>)}

\* _resolve_csv_path: the folder and the file are made sure to exist
\* (_ensure_csv_ready, lines 122-127) and the path string is returned
ResolveCsvPath ==
    /\ Len(rsPath) < MaxResolves
    /\ \E g \in GroupIds, s \in SessionIds, u \in SenderIds :
        /\ rsIn' = Append(rsIn, [group_id |-> g, session_id |-> s, sender_id |-> u])
        /\ rsPath' = Append(rsPath, FilePath(g, s, u))
        /\ rsFiles' = rsFiles \cup {Phys(FilePath(g, s, u))}
    /\ UNCHANGED notResolveVars

ResolveSpec == Init /\ [][ResolveCsvPath]_vars

\* the components of a path between groups/ or privates/ and the file name
KeyDirectory(path) == SubSeq(path, Len(_csv_base_dir) + 2, Len(path) - 1)

\* C16: the key directory name is non-empty for every event: when the
\* sanitized identifier is empty (also for a truthy group id) the resolver
\* puts a non-empty fallback in its place.
C16_KeyDirectoryNamed ==
    \A i \in 1..Len(rsPath) :
        /\ Len(KeyDirectory(rsPath[i])) = 1
        /\ KeyDirectory(rsPath[i])[1] # <<>>

\* C17: the Target File is <base>/groups/<id>/chat_history.csv or
\* <base>/privates/<id>/chat_history.csv with <id> one real directory name: no
\* identifier ('.', '..') puts the file outside its key directory, and two
\* different path strings never denote the same physical file.
C17_FileInsideKeyDirectory ==
    LET named == {i \in 1..Len(rsPath) : KeyDirectory(rsPath[i]) # <<>>}
    IN  /\ \A i \in named : Phys(rsPath[i]) = rsPath[i]
        /\ \A i, j \in named : rsPath[i] # rsPath[j] => Phys(rsPath[i]) # Phys(rsPath[j])

(***************************************************************************)
(* The Record Mapper (record_message, _to_iso) on any timestamp.           *)
(***************************************************************************)
\* C18: the Record Mapper is total: whatever the event's timestamp (absent,
\* not a number, or a number that cannot be converted), _to_iso gives a time
\* (the current one in place of an unconvertible timestamp) and
\* record_message goes on to append the row; no event is dropped.
C18_MapperTotal ==
    \A t \in Tasks :
        pc[t] # "idle" =>
            /\ ~_to_iso(event[t].timestamp).raised
            /\ ~failed[t]

(***************************************************************************)
(* The listener's registration on the event bus (initialize, terminate).   *)
(* A bus offers a subscribe method taking (event type, listener) or        *)
(* (listener, event type), or none the plugin knows; it returns a token or *)
(* None; it offers an unsubscribe method taking the token, one of the two  *)
(* pairs, or none.  A call with arguments the method does not take raises  *)
(* TypeError, as the plugin's probing expects.                             *)
(***************************************************************************)
MaxLifecycle == 4       \* initialize() and terminate() calls

NoBus == [sub |-> "absent", token |-> FALSE, unsub |-> "absent"]
Buses == {b \in [sub : {"none", "type_first", "listener_first"},
                 token : BOOLEAN,
                 unsub : {"none", "token", "type_first", "listener_first"}] :
              b.unsub = "token" => b.token} \cup {NoBus}

\* lines 157-170: hook(AstrMessageEvent, listener), then hook(listener, AstrMessageEvent)
Subscribes(bus) == bus.sub \in {"type_first", "listener_first"}

\* lines 191-206: unhook(token) if there is a token, else
\* unhook(AstrMessageEvent, listener); after a TypeError unhook(listener, AstrMessageEvent)
Unsubscribes(bus, token) ==
    IF token # 0
    THEN bus.unsub \in {"token", "listener_first"}
    ELSE bus.unsub \in {"type_first", "listener_first"}

\* ChatCSVLogger(context): the context the plugin is built with
SetContext ==
    /\ event_bus = Unset
    /\ event_bus' \in Buses
    /\ UNCHANGED <<loggerVars, sanVars, archiveVars, cellVars, dropVars, csvVars, resolveVars,
                   _event_listener_registered, _event_listener_token, subscribed, listeners,
                   lifecycle, recorded>>

\* initialize: _ensure_dir_ready, then _register_message_listener
Initialize ==
    /\ event_bus # Unset
    /\ lifecycle < MaxLifecycle
    /\ lifecycle' = lifecycle + 1
    /\ dirs' = dirs \cup {_csv_base_dir}
    /\ IF _event_listener_registered \/ event_bus = NoBus
       THEN UNCHANGED <<_event_listener_registered, _event_listener_token, subscribed, listeners>>
       ELSE /\ listeners' = listeners + 1
            /\ IF Subscribes(event_bus)
               THEN /\ subscribed' = subscribed \cup {listeners + 1}
                    /\ _event_listener_registered' = TRUE
                    /\ _event_listener_token' =
                           [listener |-> listeners + 1,
                            token |-> IF event_bus.token THEN listeners + 1 ELSE 0]
               ELSE UNCHANGED <<_event_listener_registered, _event_listener_token, subscribed>>
    /\ UNCHANGED <<sanVars, archiveVars, cellVars, dropVars, csvVars, resolveVars,
                   pc, event, file_path, my_lock, failed, fs, global_init_lock, file_locks,
                   lock_owner, acquired, event_bus, recorded>>

\* terminate: _unregister_message_listener
Terminate ==
    /\ event_bus # Unset
    /\ lifecycle < MaxLifecycle
    /\ lifecycle' = lifecycle + 1
    /\ IF ~_event_listener_registered \/ event_bus = NoBus
       THEN UNCHANGED <<_event_listener_registered, _event_listener_token, subscribed>>
       ELSE /\ subscribed' =
                   IF Unsubscribes(event_bus, _event_listener_token.token)
                   THEN subscribed \ {_event_listener_token.listener}
                   ELSE subscribed
            /\ _event_listener_registered' = FALSE
            /\ _event_listener_token' = NoToken
    /\ UNCHANGED <<loggerVars, sanVars, archiveVars, cellVars, dropVars, csvVars, resolveVars,
                   event_bus, listeners, recorded>>

\* the bus publishes an AstrMessageEvent: every listener it holds calls
\* record_message (_make_bus_listener, lines 214-224)
Publish ==
    /\ event_bus # Unset
    /\ recorded' = Cardinality(subscribed)
    /\ UNCHANGED <<loggerVars, sanVars, archiveVars, cellVars, dropVars, csvVars, resolveVars,
                   event_bus, _event_listener_registered, _event_listener_token, subscribed,
                   listeners, lifecycle>>

ListenerNext == SetContext \/ Initialize \/ Terminate \/ Publish

ListenerSpec == Init /\ [][ListenerNext]_vars

\* C20: after any sequence of initialize() and terminate() at most one
\* listener of the plugin is subscribed, so an event is recorded at most once;
\* and once terminate() has cleared the registered flag no listener is left on
\* the bus, also when the bus offers no compatible unsubscribe method.
C20_AtMostOneListener ==
    /\ Cardinality(subscribed) <= 1
    /\ recorded <= 1
    /\ ~_event_listener_registered => subscribed = {}

====
